---- MODULE Spec2Model ----
(***************************************************************************)
(* Reading-session state machine of the Fableist story reader               *)
(* (src/app/[id].tsx, second snapshot starting at line 687), its remote     *)
(* collaborators (src/services/userService.ts) and the cloud functions      *)
(* listed in src/functions/README.md.                                       *)
(*                                                                          *)
(* React semantics: `ui` holds the latest value of every useState cell,     *)
(* `view` the values captured by the closures of the last committed render. *)
(* Handlers, effects and the callbacks they schedule read `view` (or the    *)
(* snapshot they captured) and write `ui`; functional updaters read `ui`.   *)
(***************************************************************************)
EXTENDS Integers, Sequences, FiniteSets, TLC

\* ---------------------------------------------------------------- bounds
MaxFailures == 1      \* remote calls that fail
MaxOps == 2           \* remote operations in flight at once
MaxRaces == 2         \* presses, taps, scrolls handled while something is pending
MaxDialogs == 1       \* unlock alerts open at once
MaxUnlocks == 2       \* unlock requests (alert or call) alive at once
MaxPersists == 1      \* persist calls in flight at once (SpecPersist)
MaxLateEvents == 0    \* user events racing a pending step (SpecUnlock, SpecReading)
MaxCalls == 3      \* cloud-function calls made from outside the session (SpecFunctions)

\* ------------------------------------------------------ program constants
LastFreeChapter == 4
CoinCost == 5
DefaultCoins == 20

\* ---------------------------------------------------------------- content
NoChoice == "none"
AllChoices == {"A", "B"}
NoName == ""
DefaultName == "Hero"
TypedName == "Max"

\* A segment: its type and, for a decision point, its choices and its
\* `responses` map.  The first decision has a response text for A and a
\* blank one for B, the second has no responses at all.
NoResponses == [c \in {} |-> ""]
TextSeg == [type |-> "text", choices |-> {}, responses |-> NoResponses]
DecisionAB ==
  [type |-> "decisionPoint", choices |-> {"A", "B"},
   responses |-> [c \in {"A", "B"} |-> IF c = "A" THEN "rA" ELSE ""]]
DecisionA == [type |-> "decisionPoint", choices |-> {"A"}, responses |-> NoResponses]

\* The stories a session is opened on: one with decision points, one long
\* enough to have a chapter behind the paywall.
BranchingStory ==
  << <<TextSeg, DecisionAB, DecisionA>>,
     <<TextSeg, DecisionA, TextSeg>> >>

PaywallStory ==
  << <<TextSeg>>, <<TextSeg>>, <<TextSeg>>, <<TextSeg>>, <<TextSeg>>, <<TextSeg>> >>

Stories == {BranchingStory, PaywallStory}

VARIABLE story   \* the fetched story content (useQuery 'story-content')

NumChapters == Len(story)
ChapterIdx == 0 .. NumChapters - 1
Chapter(c) == story[c + 1]
Segment(c, i) == story[c + 1][i + 1]
Keys == UNION {{<<c, i>> : i \in {j \in 0 .. Len(Chapter(c)) - 1 :
                                    Segment(c, j).type = "decisionPoint"}} :
               c \in ChapterIdx}

\* segment.responses?.[choice] || `You chose: ${choice}`
DefaultResponse(choice) == "You chose: " \o choice
\* (variant: the entry of the map is taken as it is)
ResponseAsStored(seg, choice) ==
  IF choice \in DOMAIN seg.responses THEN seg.responses[choice] ELSE ""
SegmentResponse(seg, choice) ==
  IF choice \in DOMAIN seg.responses /\ seg.responses[choice] # ""
  THEN seg.responses[choice] ELSE DefaultResponse(choice)

\* ------------------------------------------------------- decision history
\* Record<string, any> keyed `${chapterIndex}-${segmentIndex}`; the key is
\* kept as the pair it is built from.
EmptyHistory == [k \in {} |-> [choice |-> NoChoice, response |-> ""]]
HasEntry(h, k) == k \in DOMAIN h /\ h[k].choice # NoChoice
Put(h, k, rec) == [x \in DOMAIN h \cup {k} |-> IF x = k THEN rec ELSE h[x]]
\* (variant: the delta replaces the stored history)
Overwrite(h, d) == d
Merge(h, d) == [x \in DOMAIN h \cup DOMAIN d |-> IF x \in DOMAIN d THEN d[x] ELSE h[x]]

\* ----------------------------------------------------------- stream entries
Entry(c, i) ==
  [chapterIndex |-> c, index |-> i, type |-> Segment(c, i).type,
   selectedChoice |-> NoChoice, response |-> ""]

\* Array.prototype.includes on a stored list, and the contents of the list
Range(list) == {list[i] : i \in DOMAIN list}
Includes(list, x) == x \in Range(list)
\* if (!unlockedChapters.includes(chapterIndex)) unlockedChapters.push(chapterIndex)
Push(list, x) == IF Includes(list, x) THEN list ELSE Append(list, x)
\* a stored list with the given contents, in ascending order
RECURSIVE ListOf(_)
ListOf(S) ==
  IF S = {} THEN <<>>
  ELSE LET m == CHOOSE x \in S : \A y \in S : x <= y IN <<m>> \o ListOf(S \ {m})

\* The history application shared by the three builders:
\* selectedChoice = entry.choice, responses[choice] = entry.response if it is
\* truthy, else the segment's own response or the synthesized default.
ApplyHistory(e, h) ==
  LET k == <<e.chapterIndex, e.index>> IN
  IF e.type = "decisionPoint" /\ HasEntry(h, k)
  THEN [e EXCEPT !.selectedChoice = h[k].choice,
                 !.response = IF h[k].response # "" THEN h[k].response
                              ELSE SegmentResponse(Segment(e.chapterIndex, e.index), h[k].choice)]
  ELSE e

\* (variant: every decision point stops the build)
StopAtEveryDecision(e) == e.type = "decisionPoint"
Unanswered(e) == e.type = "decisionPoint" /\ e.selectedChoice = NoChoice

\* for-loop of loadChapterContent / loadChapterContentWithHistory: push each
\* segment with the history applied, break after the first decision point
\* that has no selectedChoice.
RECURSIVE BuildFrom(_, _, _)
BuildFrom(c, i, h) ==
  IF i >= Len(Chapter(c)) THEN <<>>
  ELSE LET e == ApplyHistory(Entry(c, i), h) IN
       IF Unanswered(e) THEN <<e>> ELSE <<e>> \o BuildFrom(c, i + 1, h)

BuildChapter(c, h) == BuildFrom(c, 0, h)

\* for-loop of the handleChoice continuation: segments lastSegmentIndex+1..
\* of the current chapter, stamped with currentChapterIndex.
Continue(cur, last, h) == BuildFrom(cur, last + 1, h)

\* ------------------------------------------------------------------ state
VARIABLES
  sess,      \* [n, mounted, auth, initChapter]: the mounted reader screen
  ui,        \* latest value of the component's state cells
  view,      \* the values the committed render (its handlers) closed over
  timers,    \* pending setTimeout / animation callbacks with their closures
  dialogs,   \* open "Unlock Chapter" alerts with their closures
  load,      \* loadUserProgress: "none", "pending", "done", "failed"
  restore,   \* restore loop of loadUserProgress: [on, hist, next, start]
  profile,   \* user-profile query: "none", "pending", "done"
  choiceOps, \* handleChoice Firestore writes in flight
  nameOps,   \* saveCharacterNameToFirestore calls in flight
  cfOps,     \* updateReadingProgress cloud-function calls in flight
  unlocks,   \* unlockChapter calls in flight
  doc,       \* remote users/{uid}/userLibrary/{storyId}
  coins,     \* remote users/{uid}.coins
  fails,     \* remote calls that have failed so far
  races,     \* user events handled while a render, a timer or a remote
             \* operation of the session was still pending
  cloud      \* the cloud functions seen from outside the session: the last
             \* call handled and the documents of a second user

vars == <<story, sess, ui, view, timers, dialogs, load, restore, profile,
          choiceOps, nameOps, cfOps, unlocks, doc, coins, fails, races, cloud>>

NoProfile == -1

\* useState initial values (lines 755-766); coins is userProfile?.coins
InitialUi ==
  [isFirstPage |-> TRUE, characterName |-> NoName, currentChapterIndex |-> 0,
   loadedChapters |-> {}, storySegments |-> <<>>,
   isNavigatingToSavedPosition |-> FALSE, isAnimating |-> FALSE,
   unlockedChapters |-> {}, decisionHistory |-> EmptyHistory,
   coins |-> NoProfile, nextChapterFade |-> 0]

NoDoc ==
  [exists |-> FALSE, characterName |-> NoName, currentChapter |-> 0,
   userChoices |-> <<>>, unlockedChapters |-> <<>>, chapterHistory |-> EmptyHistory]

\* context.auth of a callable function is undefined for a call made without
\* a signed-in user; otherwise context.auth.uid is the caller's id.
NoContext == "none"
Users == {"reader", "stranger"}

\* No call handled yet.  doc and coins are the reader's documents; the
\* stranger's userLibrary document and profile are kept here.  pending holds
\* the updateUserCoins calls made through the client service whose read of
\* the balance has returned and whose update is not written yet.  userDoc
\* tells whether the reader's users/{uid} document, which holds coins,
\* exists; signIns holds the createUserDocument calls whose getDoc has
\* returned.
NoCalls ==
  [n |-> 0, fn |-> "none", caller |-> NoContext, error |-> "", touched |-> {},
   doc |-> NoDoc, coins |-> DefaultCoins, pending |-> {},
   userDoc |-> TRUE, signIns |-> {}]

\* Alert.alert of unlockChapter: the last one shown, with the numbers its
\* message quotes.
NoAlert == [title |-> "none", message |-> "", cost |-> 0, balance |-> 0]
AlertOf(title, message) == [NoAlert EXCEPT !.title = title, !.message = message]

NoRestore == [on |-> FALSE, hist |-> EmptyHistory, next |-> 0, start |-> 0]

\* (variant: no chapter is locked)
NeverLocked(c, unlocked) == FALSE
\* (variant: only the list decides)
LockedUnlessListed(c, unlocked) == c \notin unlocked
\* isChapterLocked (closure's unlockedChapters)
IsChapterLocked(c, unlocked) ==
  IF c <= LastFreeChapter THEN FALSE
  ELSE IF c \in unlocked THEN FALSE
  ELSE TRUE

\* hasNextChapter of a render (line 790)
HasNextChapter(clo) == clo.currentChapterIndex < NumChapters - 1

\* stopAtDecisionPoint at the end of the loop of loadChapterContent
StopAtDecisionPoint(c, h) ==
  LET b == BuildChapter(c, h) IN Len(b) > 0 /\ Unanswered(b[Len(b)])

\* nextChapterFadeAnim (line 772) is the opacity of the next-chapter
\* indicator: 0 until a setTimeout(..., 500) of loadChapterContent or of the
\* handleChoice continuation starts the animation to 1.  That callback reads
\* nothing and is never cancelled, and nothing sets the value back, so the
\* value is given as raised by the step that schedules the callback.
\*
\* loadChapterContent(c) run from a closure `clo`; loadChapterContentWithHistory
\* is the same code reading `h` instead of the closure's decisionHistory.
\* setStorySegments / setLoadedChapters are functional updates of u.
LoadChapterWith(u, clo, c, h) ==
  IF c \notin ChapterIdx THEN u
  ELSE IF c \in clo.loadedChapters THEN u
  ELSE [u EXCEPT !.storySegments = @ \o BuildChapter(c, h),
                 !.loadedChapters = @ \cup {c},
                 !.currentChapterIndex =
                     IF c > clo.currentChapterIndex THEN c ELSE @,
                 !.nextChapterFade =
                     IF /\ HasNextChapter(clo)
                        /\ c = clo.currentChapterIndex
                        /\ ~StopAtDecisionPoint(c, h)
                     THEN 1 ELSE @]

LoadChapterContent(u, clo, c) == LoadChapterWith(u, clo, c, clo.decisionHistory)

\* userChoices.forEach(choice => formattedHistory[key] = {...})
RECURSIVE FormatHistory(_)
FormatHistory(choices) ==
  IF choices = <<>> THEN EmptyHistory
  ELSE LET n == Len(choices)
           c == choices[n]
       IN Put(FormatHistory(SubSeq(choices, 1, n - 1)),
              <<c.chapterIndex, c.segmentIndex>>,
              [choice |-> c.choice, response |-> c.response])

\* saved-position effect, lines 1010-1043
AnnotateMissing(segs, h) ==
  [i \in DOMAIN segs |->
     IF segs[i].type = "decisionPoint"
        /\ <<segs[i].chapterIndex, segs[i].index>> \in DOMAIN h
        /\ segs[i].selectedChoice = NoChoice
     THEN ApplyHistory(segs[i], h) ELSE segs[i]]

\* ------------------------------------------------------------------- init
InitCoins == {7}
InitChapters == {0, 1}

NothingStarted ==
  /\ story \in Stories
  /\ cloud = NoCalls
  /\ sess = [n |-> 0, mounted |-> FALSE, auth |-> FALSE, initChapter |-> 0,
             alert |-> NoAlert]
  /\ timers = {}
  /\ dialogs = {}
  /\ load = "none"
  /\ restore = NoRestore
  /\ profile = "none"
  /\ choiceOps = {}
  /\ nameOps = {}
  /\ cfOps = {}
  /\ unlocks = {}
  /\ doc = NoDoc
  /\ coins \in InitCoins
  /\ fails = 0
  /\ races = 0

Init ==
  /\ NothingStarted
  /\ ui = InitialUi
  /\ view = InitialUi

Remote == <<story, doc, coins, cloud>>
Ops == <<choiceOps, nameOps, cfOps, unlocks>>

\* A user event runs the handler of the committed render.  It races when a
\* newer state awaits its render, a timer is pending or a remote operation
\* (the progress load and the profile query included) is in flight; at most
\* MaxRaces presses, taps and scrolls do (typing the name is not counted).
\* Callbacks (timers, resolved promises) run after the pending render has
\* committed.
Fresh == view = ui
OpsInFlight ==
  Cardinality(choiceOps) + Cardinality(nameOps) + Cardinality(cfOps) + Cardinality(unlocks)
Busy ==
  \/ ~Fresh
  \/ OpsInFlight > 0
  \/ timers # {}
  \/ restore.on
  \/ load = "pending"
  \/ profile = "pending"
UserEvent ==
  /\ sess.mounted
  /\ (Busy => races < MaxRaces)
  /\ races' = IF Busy THEN races + 1 ELSE races

\* ------------------------------------------------------ mount and unmount
\* The screen mounts with the story fetched; the load effect (lines 794-968)
\* runs once: loadUserProgress() up to its first await, then
\* `if (isFirstPage) setDecisionHistory({})`.
Mount(a, ic) ==
  /\ ~sess.mounted
  /\ sess.n = 0
  /\ sess' = [n |-> sess.n + 1, mounted |-> TRUE, auth |-> a, initChapter |-> ic,
              alert |-> sess.alert]
  /\ view' = InitialUi
  /\ IF a
     THEN /\ ui' = InitialUi
          /\ load' = "pending"
          /\ profile' = "pending"
     ELSE /\ ui' = LoadChapterContent(
                     [InitialUi EXCEPT !.characterName = DefaultName], InitialUi,
                     IF ic > 0 /\ ic < NumChapters THEN ic ELSE 0)
          /\ load' = "none"
          /\ profile' = "none"
  /\ timers' = {}
  /\ dialogs' = {}
  /\ restore' = NoRestore
  /\ UNCHANGED <<Remote, Ops, fails, races>>

\* Leaving the screen: state, timers and the pending load result are dropped,
\* remote operations already issued keep running.
Unmount ==
  /\ sess.mounted
  /\ Fresh
  /\ timers = {}
  /\ ~restore.on
  /\ dialogs = {}
  /\ sess' = [sess EXCEPT !.mounted = FALSE]
  /\ ui' = InitialUi
  /\ view' = InitialUi
  /\ timers' = {}
  /\ load' = "none"
  /\ restore' = NoRestore
  /\ profile' = "none"
  /\ UNCHANGED <<dialogs, Remote, Ops, fails, races>>

\* Local continuation of an operation started by session n still applies.
Live(n) == sess.mounted /\ sess.n = n

\* ----------------------------------------------------------------- render
\* saved-position effect (lines 971-1058) on the values of render r
SavedPositionRuns(old, r) ==
  /\ r.isNavigatingToSavedPosition
  /\ ~r.isFirstPage
  /\ Len(r.storySegments) > 0
  /\ \/ old.isNavigatingToSavedPosition # r.isNavigatingToSavedPosition
     \/ old.storySegments # r.storySegments
     \/ old.decisionHistory # r.decisionHistory
  /\ \E i \in DOMAIN r.storySegments :
        r.storySegments[i].chapterIndex = sess.initChapter

SavedPositionEffect(u, r) ==
  [u EXCEPT !.storySegments =
               IF DOMAIN r.decisionHistory # {}
                  /\ AnnotateMissing(r.storySegments, r.decisionHistory) # r.storySegments
               THEN AnnotateMissing(r.storySegments, r.decisionHistory) ELSE @,
            !.isNavigatingToSavedPosition = FALSE]

\* persist-progress effect (lines 1066-1091) on the values of render r
PersistRuns(old, r) ==
  /\ sess.auth
  /\ ~r.isFirstPage
  /\ \/ old.currentChapterIndex # r.currentChapterIndex
     \/ old.decisionHistory # r.decisionHistory
     \/ old.isFirstPage # r.isFirstPage

PersistEffect(u, r) ==
  [u EXCEPT !.unlockedChapters = @ \cup {r.currentChapterIndex}]

\* (variant: the call carries no decisions)
NewCfWithoutDecisions(r) ==
  [sess |-> sess.n, pc |-> "read", chapter |-> r.currentChapterIndex,
   decisions |-> EmptyHistory, exists |-> FALSE,
   unlockedChapters |-> <<>>, chapterHistory |-> EmptyHistory]
NewCf(r) ==
  [sess |-> sess.n, pc |-> "read", chapter |-> r.currentChapterIndex,
   decisions |-> r.decisionHistory, exists |-> FALSE,
   unlockedChapters |-> <<>>, chapterHistory |-> EmptyHistory]

\* React commits the pending state: the new closures see ui, then the
\* effects whose dependencies changed run.
Render ==
  /\ sess.mounted
  /\ view # ui
  /\ view' = ui
  /\ LET u1 == IF SavedPositionRuns(view, ui) THEN SavedPositionEffect(ui, ui) ELSE ui
         u2 == IF PersistRuns(view, ui) THEN PersistEffect(u1, ui) ELSE u1
     IN /\ ui' = u2
        /\ IF PersistRuns(view, ui)
           THEN /\ OpsInFlight < MaxOps
                /\ cfOps' = cfOps \cup {NewCf(ui)}
           ELSE cfOps' = cfOps
  /\ UNCHANGED <<sess, timers, dialogs, load, restore, profile,
                 choiceOps, nameOps, unlocks, Remote, fails, races>>

\* ------------------------------------------------------------ user events
Timer(kind, clo, segs, hist, idx) ==
  [kind |-> kind, clo |-> clo, segs |-> segs, hist |-> hist, idx |-> idx]

\* onChangeText={setCharacterName} on the first page
TypeName ==
  /\ sess.mounted
  /\ view.isFirstPage
  /\ ui.characterName # TypedName
  /\ ui' = [ui EXCEPT !.characterName = TypedName]
  /\ UNCHANGED <<sess, view, timers, dialogs, load, restore, profile, Remote, Ops,
                 fails, races>>

NewNameOp(clo) ==
  [sess |-> sess.n, pc |-> "read", name |-> clo.characterName, exists |-> FALSE]

\* handleStartReading (lines 1818-1832): save the name, then
\* animateContentChange(() => { setIsFirstPage(false); loadChapterContent(0) })
HandleStartReading ==
  /\ UserEvent
  /\ view.isFirstPage
  /\ view.characterName # NoName
  /\ IF sess.auth
     THEN /\ OpsInFlight < MaxOps
          /\ nameOps' = nameOps \cup {NewNameOp(view)}
     ELSE nameOps' = nameOps
  /\ ui' = [ui EXCEPT !.isAnimating = TRUE]
  /\ timers' = timers \cup {Timer("startCb", view, <<>>, EmptyHistory, 0)}
  /\ UNCHANGED <<sess, view, dialogs, load, restore, profile, Remote,
                 choiceOps, cfOps, unlocks, fails>>

\* callback of the fade-out (lines 1595-1618)
StartCallback(t) ==
  /\ sess.mounted
  /\ Fresh
  /\ t \in timers
  /\ t.kind = "startCb"
  /\ ui' = LoadChapterContent([ui EXCEPT !.isFirstPage = FALSE], t.clo, 0)
  /\ timers' = (timers \ {t}) \cup {Timer("animEnd", InitialUi, <<>>, EmptyHistory, 0)}
  /\ UNCHANGED <<sess, view, dialogs, load, restore, profile, Remote, Ops, fails, races>>

\* end of the fade-in: setIsAnimating(false)
AnimationEnd(t) ==
  /\ sess.mounted
  /\ Fresh
  /\ t \in timers
  /\ t.kind = "animEnd"
  /\ ui' = [ui EXCEPT !.isAnimating = FALSE]
  /\ timers' = timers \ {t}
  /\ UNCHANGED <<sess, view, dialogs, load, restore, profile, Remote, Ops, fails, races>>

\* renderSegment shows the choice buttons of entry p of the committed render
ChoicesShown(p) ==
  /\ ~view.isFirstPage
  /\ p \in DOMAIN view.storySegments
  /\ view.storySegments[p].type = "decisionPoint"
  /\ ~(\/ view.storySegments[p].selectedChoice # NoChoice
       \/ HasEntry(view.decisionHistory,
                   <<view.storySegments[p].chapterIndex, view.storySegments[p].index>>))

ChoiceRecord(e, choice) ==
  [choice |-> choice,
   response |-> SegmentResponse(Segment(e.chapterIndex, e.index), choice)]

\* updatedSegments (lines 1632-1645)
UpdatedSegments(segs, e, choice) ==
  [i \in DOMAIN segs |->
     IF segs[i].index = e.index /\ segs[i].chapterIndex = e.chapterIndex
     THEN [segs[i] EXCEPT !.selectedChoice = choice,
                          !.response = ChoiceRecord(e, choice).response]
     ELSE segs[i]]

NewChoiceOp(e, choice) ==
  [sess |-> sess.n, pc |-> "read", chapterIndex |-> e.chapterIndex,
   segmentIndex |-> e.index, choice |-> choice,
   response |-> ChoiceRecord(e, choice).response,
   exists |-> FALSE, userChoices |-> <<>>]

\* handleChoice(segment, choice) (lines 1621-1816) up to the setTimeout
HandleChoice(p, choice) ==
  /\ UserEvent
  /\ ChoicesShown(p)
  /\ choice \in Segment(view.storySegments[p].chapterIndex, view.storySegments[p].index).choices
  /\ LET e == view.storySegments[p]
         k == <<e.chapterIndex, e.index>>
         segs == UpdatedSegments(view.storySegments, e, choice)
         hist == Put(view.decisionHistory, k, ChoiceRecord(e, choice))
     IN /\ e.selectedChoice = NoChoice
        /\ ui' = [ui EXCEPT !.isAnimating = TRUE,
                            !.storySegments = segs,
                            !.decisionHistory = hist]
        /\ timers' = timers \cup {Timer("cont", view, segs, hist, e.index)}
        /\ IF sess.auth
           THEN /\ OpsInFlight < MaxOps
                /\ choiceOps' = choiceOps \cup {NewChoiceOp(e, choice)}
           ELSE choiceOps' = choiceOps
  /\ UNCHANGED <<sess, view, dialogs, load, restore, profile, Remote,
                 nameOps, cfOps, unlocks, fails>>

\* the setTimeout(..., 800) continuation of handleChoice (lines 1731-1815)
ChoiceContinuation(t) ==
  /\ sess.mounted
  /\ Fresh
  /\ t \in timers
  /\ t.kind = "cont"
  /\ LET cur == t.clo.currentChapterIndex
         nextSegments == t.segs \o Continue(cur, t.idx, t.hist)
         isLastSegment ==
           nextSegments[Len(nextSegments)].index = Len(Chapter(cur)) - 1
     IN
     ui' = [ui EXCEPT
              !.storySegments =
                 IF t.idx < Len(Chapter(cur)) - 1 THEN nextSegments ELSE @,
              !.nextChapterFade =
                 IF /\ t.idx < Len(Chapter(cur)) - 1
                    /\ isLastSegment
                    /\ HasNextChapter(t.clo)
                 THEN 1 ELSE @,
              !.isAnimating = FALSE]
  /\ timers' = timers \ {t}
  /\ UNCHANGED <<sess, view, dialogs, load, restore, profile, Remote, Ops, fails, races>>

\* handleScroll reaching the bottom (lines 1497-1568); the 800 ms throttle
\* is not a constraint once enough time has passed.
AtChapterEnd(v) ==
  /\ ~v.isFirstPage
  /\ ~v.isAnimating
  /\ v.currentChapterIndex < NumChapters - 1
  /\ Len(v.storySegments) > 0
  /\ LET last == v.storySegments[Len(v.storySegments)] IN
       /\ last.chapterIndex = v.currentChapterIndex
       /\ last.index = Len(Chapter(last.chapterIndex)) - 1
       /\ ~Unanswered(last)

FreeDialogIds ==
  IF Cardinality(dialogs) >= MaxDialogs THEN {}
  ELSE (1 .. MaxUnlocks) \ ({d.id : d \in dialogs} \cup {u.id : u \in unlocks})

HandleScroll ==
  /\ UserEvent
  /\ AtChapterEnd(view)
  /\ LET next == view.currentChapterIndex + 1 IN
     IF IsChapterLocked(next, view.unlockedChapters)
     THEN /\ FreeDialogIds # {}
          /\ dialogs' = dialogs \cup
               {[id |-> CHOOSE i \in FreeDialogIds : \A j \in FreeDialogIds : i <= j,
                 chapter |-> next, clo |-> view]}
          /\ ui' = ui
     ELSE /\ ui' = LoadChapterContent(ui, view, next)
          /\ dialogs' = dialogs
  /\ UNCHANGED <<sess, view, timers, load, restore, profile, Remote, Ops, fails>>

\* "Cancel" on the alert
DialogCancel(d) ==
  /\ d \in dialogs
  /\ dialogs' = dialogs \ {d}
  /\ UNCHANGED <<sess, ui, view, timers, load, restore, profile, Remote, Ops, fails, races>>

\* ------------------------------------------------------- remote failures
CanFail == fails < MaxFailures

\* A step of a remote operation touches only the remote documents and the
\* operation's own record, so it commutes with renders and timers; the
\* interleavings are represented by the ones where pending renders and timers
\* go first.  A rejected promise is modelled at the request (a rejection of
\* the read or of the write runs the same catch block).
Settled ==
  \/ ~sess.mounted
  \/ OpsInFlight >= MaxOps
  \/ Fresh /\ timers = {} /\ ~restore.on

\* ------------------------------------------------- loadUserProgress result
\* getDoc resolved (lines 822-938)
LoadComplete ==
  /\ sess.mounted
  /\ Fresh
  /\ load = "pending"
  /\ load' = "done"
  /\ LET formattedHistory == FormatHistory(doc.userChoices) IN
     IF doc.exists
     THEN IF doc.characterName # NoName
          THEN /\ ui' = [ui EXCEPT !.decisionHistory = formattedHistory,
                                   !.characterName = doc.characterName,
                                   !.isFirstPage = FALSE,
                                   !.currentChapterIndex = doc.currentChapter,
                                   !.storySegments = <<>>,
                                   !.loadedChapters = {}]
               /\ restore' = [on |-> TRUE, hist |-> formattedHistory,
                              next |-> 0, start |-> doc.currentChapter]
          ELSE /\ ui' = [ui EXCEPT !.decisionHistory = formattedHistory,
                                   !.characterName = DefaultName]
               /\ restore' = restore
     ELSE /\ ui' = [ui EXCEPT !.characterName = DefaultName]
          /\ restore' = restore
  /\ UNCHANGED <<sess, view, timers, dialogs, profile, Remote, Ops, fails, races>>

\* getDoc rejected: the catch block (lines 940-945), run from the closure of
\* the render in which the effect ran
LoadFail ==
  /\ sess.mounted
  /\ Fresh
  /\ load = "pending"
  /\ CanFail
  /\ fails' = fails + 1
  /\ load' = "failed"
  /\ ui' = LoadChapterContent([ui EXCEPT !.decisionHistory = EmptyHistory], InitialUi, 0)
  /\ UNCHANGED <<sess, view, timers, dialogs, restore, profile, Remote, Ops, races>>

\* one iteration of the restore loop (lines 905-928), each in its own timer
RestoreStep ==
  /\ sess.mounted
  /\ Fresh
  /\ restore.on
  /\ LET i == restore.next
         u == LoadChapterWith(ui, InitialUi, i, restore.hist)
     IN /\ ui' = IF i = restore.start
                 THEN [u EXCEPT !.isNavigatingToSavedPosition = TRUE] ELSE u
        /\ restore' = [restore EXCEPT
                         !.next = i + 1,
                         !.on = i + 1 <= restore.start /\ i + 1 < NumChapters]
  /\ UNCHANGED <<sess, view, timers, dialogs, load, profile, Remote, Ops, fails, races>>

\* ------------------------------------------------------ user-profile query
ProfileFetched ==
  /\ sess.mounted
  /\ Fresh
  /\ profile = "pending"
  /\ profile' = "done"
  /\ ui' = [ui EXCEPT !.coins = coins]
  /\ UNCHANGED <<sess, view, timers, dialogs, load, restore, Remote, Ops, fails, races>>

ProfileFail ==
  /\ sess.mounted
  /\ Fresh
  /\ profile = "pending"
  /\ CanFail
  /\ fails' = fails + 1
  /\ profile' = "done"
  /\ UNCHANGED <<sess, ui, view, timers, dialogs, load, restore, Remote, Ops, races>>

Screen == <<ui, view, timers, dialogs, load, restore, profile, races>>
Local == <<sess, Screen>>

\* ------------------------------------------- handleChoice's Firestore write
ChoiceEntry(o) ==
  [chapterIndex |-> o.chapterIndex, segmentIndex |-> o.segmentIndex,
   choice |-> o.choice, response |-> o.response]

\* userChoices.filter(c => !(same decision point))
RECURSIVE RemoveChoice(_, _, _)
RemoveChoice(choices, c, i) ==
  IF choices = <<>> THEN <<>>
  ELSE IF Head(choices).chapterIndex = c /\ Head(choices).segmentIndex = i
       THEN RemoveChoice(Tail(choices), c, i)
       ELSE <<Head(choices)>> \o RemoveChoice(Tail(choices), c, i)

\* getDoc(libraryDocRef) (line 1684)
ChoiceRead(o) ==
  /\ o \in choiceOps
  /\ Settled
  /\ o.pc = "read"
  /\ choiceOps' = (choiceOps \ {o}) \cup
       {[o EXCEPT !.pc = "write", !.exists = doc.exists, !.userChoices = doc.userChoices]}
  /\ UNCHANGED <<Local, Remote, nameOps, cfOps, unlocks, fails>>

\* updateDoc / setDoc (lines 1685-1715)
ChoiceWrite(o) ==
  /\ o \in choiceOps
  /\ Settled
  /\ o.pc = "write"
  /\ choiceOps' = choiceOps \ {o}
  /\ IF o.exists
     THEN doc' = [doc EXCEPT
                    !.userChoices = Append(RemoveChoice(o.userChoices, o.chapterIndex,
                                                        o.segmentIndex), ChoiceEntry(o)),
                    !.currentChapter = o.chapterIndex]
     ELSE doc' = [NoDoc EXCEPT !.exists = TRUE,
                               !.userChoices = <<ChoiceEntry(o)>>,
                               !.currentChapter = o.chapterIndex]
  /\ UNCHANGED <<Local, story, cloud, coins, nameOps, cfOps, unlocks, fails>>

ChoiceFail(o) ==
  /\ o \in choiceOps
  /\ o.pc = "read"
  /\ Settled
  /\ CanFail
  /\ fails' = fails + 1
  /\ choiceOps' = choiceOps \ {o}
  /\ UNCHANGED <<Local, Remote, nameOps, cfOps, unlocks>>

\* --------------------------------------------- saveCharacterNameToFirestore
NameRead(o) ==
  /\ o \in nameOps
  /\ Settled
  /\ o.pc = "read"
  /\ nameOps' = (nameOps \ {o}) \cup {[o EXCEPT !.pc = "write", !.exists = doc.exists]}
  /\ UNCHANGED <<Local, Remote, choiceOps, cfOps, unlocks, fails>>

NameWrite(o) ==
  /\ o \in nameOps
  /\ Settled
  /\ o.pc = "write"
  /\ nameOps' = nameOps \ {o}
  /\ IF o.exists
     THEN doc' = [doc EXCEPT !.characterName = o.name]
     ELSE doc' = [NoDoc EXCEPT !.exists = TRUE, !.characterName = o.name]
  /\ UNCHANGED <<Local, story, cloud, coins, choiceOps, cfOps, unlocks, fails>>

NameFail(o) ==
  /\ o \in nameOps
  /\ o.pc = "read"
  /\ Settled
  /\ CanFail
  /\ fails' = fails + 1
  /\ nameOps' = nameOps \ {o}
  /\ UNCHANGED <<Local, Remote, choiceOps, cfOps, unlocks>>

\* ------------------------------------ updateReadingProgress cloud function
\* (variant: a new document starts without unlocked chapters)
NoInitialChapters == <<>>
\* Array.from({ length: 5 }, (_, i) => i) (README line 180)
InitialUnlockedChapters == [i \in 1 .. LastFreeChapter + 1 |-> i - 1]

\* libraryItemRef.get() (README line 144)
CfRead(o) ==
  /\ o \in cfOps
  /\ Settled
  /\ o.pc = "read"
  /\ cfOps' = (cfOps \ {o}) \cup
       {[o EXCEPT !.pc = "write", !.exists = doc.exists,
                  !.unlockedChapters = doc.unlockedChapters,
                  !.chapterHistory = doc.chapterHistory]}
  /\ UNCHANGED <<Local, Remote, choiceOps, nameOps, unlocks, fails>>

\* (variant: a paid chapter is pushed without looking at the list)
AlwaysPushed(base, chapter) ==
  IF chapter > LastFreeChapter THEN Append(base, chapter) ELSE base

CfUnlocked(base, chapter) ==
  IF chapter > LastFreeChapter /\ ~Includes(base, chapter)
  THEN Append(base, chapter) ELSE base

\* libraryItemRef.update / set (README lines 146-196)
CfWrite(o) ==
  /\ o \in cfOps
  /\ Settled
  /\ o.pc = "write"
  /\ cfOps' = cfOps \ {o}
  /\ IF o.exists
     THEN doc' = [doc EXCEPT
                    !.currentChapter = o.chapter,
                    !.unlockedChapters = CfUnlocked(o.unlockedChapters, o.chapter),
                    !.chapterHistory = Merge(o.chapterHistory, o.decisions)]
     ELSE doc' = [NoDoc EXCEPT
                    !.exists = TRUE,
                    !.currentChapter = o.chapter,
                    !.unlockedChapters = CfUnlocked(InitialUnlockedChapters, o.chapter),
                    !.chapterHistory = o.decisions]
  /\ UNCHANGED <<Local, story, cloud, coins, choiceOps, nameOps, unlocks, fails>>

\* (variant: a rejected persist puts the reader back on the first page)
CfFailLeavingReader(o) ==
  /\ o \in cfOps
  /\ o.pc = "read"
  /\ Settled
  /\ CanFail
  /\ fails' = fails + 1
  /\ cfOps' = cfOps \ {o}
  /\ ui' = IF Live(o.sess) THEN [ui EXCEPT !.isFirstPage = TRUE] ELSE ui
  /\ UNCHANGED <<sess, view, timers, dialogs, load, restore, profile, races,
                 Remote, choiceOps, nameOps, unlocks>>
CfFail(o) ==
  /\ o \in cfOps
  /\ o.pc = "read"
  /\ Settled
  /\ CanFail
  /\ fails' = fails + 1
  /\ cfOps' = cfOps \ {o}
  /\ UNCHANGED <<Local, Remote, choiceOps, nameOps, unlocks>>

\* ------------------------------------------------------------ unlockChapter
\* "Unlock" on the alert: unlockChapter(nextChapterIndex) of the closure that
\* opened it (lines 1448-1461), up to the first await.  `before` remembers
\* the remote balance at the call, `solo` whether no other unlock call was
\* alive during the call.
NewUnlock(d) ==
  [id |-> d.id, sess |-> sess.n, chapter |-> d.chapter, clo |-> d.clo,
   pc |-> "debitRead", read |-> 0, exists |-> FALSE, unlockedChapters |-> <<>>,
   before |-> coins, solo |-> unlocks = {}]

NotSolo(others) == {[v EXCEPT !.solo = FALSE] : v \in others}

\* (variant: nobody is turned away)
AnyoneSignedIn(d) == TRUE
\* isAuthenticated() && userProfile (line 1448) in the closure of the alert
SignedIn(d) == sess.auth /\ d.clo.coins # NoProfile

\* (variant: the mirrored balance is not compared with the price)
AlwaysAffordable(d) == TRUE
\* currentCoins >= coinCost (lines 1453-1456)
Affordable(d) == d.clo.coins >= CoinCost

DialogUnlock(d) ==
  /\ d \in dialogs
  /\ dialogs' = dialogs \ {d}
  /\ IF ~SignedIn(d)
     THEN /\ sess' = [sess EXCEPT !.alert =
                        AlertOf("Authentication Required",
                                "Please log in to unlock chapters.")]
          /\ unlocks' = unlocks
     ELSE IF ~Affordable(d)
     THEN /\ sess' = [sess EXCEPT !.alert =
                        [title |-> "Insufficient Coins",
                         message |-> "You need cost coins, you have balance coins.",
                         cost |-> CoinCost, balance |-> d.clo.coins]]
          /\ unlocks' = unlocks
     ELSE /\ OpsInFlight < MaxOps
          /\ unlocks' = NotSolo(unlocks) \cup {NewUnlock(d)}
          /\ sess' = sess
  /\ UNCHANGED <<ui, view, timers, load, restore, profile, Remote,
                 choiceOps, nameOps, cfOps, fails, races>>

\* updateUserCoins cloud function: userRef.get() (README line 251)
CoinsRead(u) ==
  /\ u \in unlocks
  /\ Settled
  /\ u.pc \in {"debitRead", "refundRead"}
  /\ unlocks' = (unlocks \ {u}) \cup
       {[u EXCEPT !.read = coins,
                  !.pc = IF u.pc = "debitRead" THEN "debitWrite" ELSE "refundWrite"]}
  /\ UNCHANGED <<Local, Remote, choiceOps, nameOps, cfOps, fails>>

\* switch (operation) (README lines 271-289)
NewCoinBalance(currentCoins, amount, operation) ==
  IF operation = "add" THEN currentCoins + amount
  ELSE IF operation = "set" THEN amount
  ELSE IF currentCoins - amount > 0 THEN currentCoins - amount ELSE 0

RefundedAlert ==
  AlertOf("Error", "Failed to unlock chapter. Your coins have been refunded.")

\* userRef.update({ coins: newCoinBalance }) and the client's next step
CoinsWrite(u) ==
  /\ u \in unlocks
  /\ Settled
  /\ u.pc \in {"debitWrite", "refundWrite"}
  /\ IF u.pc = "debitWrite"
     THEN /\ coins' = NewCoinBalance(u.read, CoinCost, "subtract")
          /\ unlocks' = (unlocks \ {u}) \cup {[u EXCEPT !.pc = "markRead"]}
          /\ sess' = sess
     ELSE /\ coins' = NewCoinBalance(u.read, CoinCost, "add")
          /\ unlocks' = unlocks \ {u}
          /\ sess' = [sess EXCEPT !.alert = RefundedAlert]
  /\ UNCHANGED <<Screen, story, cloud, doc, choiceOps, nameOps, cfOps, fails>>

\* unlockChapter service: getDoc (userService.ts line 530)
MarkRead(u) ==
  /\ u \in unlocks
  /\ Settled
  /\ u.pc = "markRead"
  /\ unlocks' = (unlocks \ {u}) \cup
       {[u EXCEPT !.pc = "markWrite", !.exists = doc.exists,
                  !.unlockedChapters = doc.unlockedChapters]}
  /\ UNCHANGED <<Local, Remote, choiceOps, nameOps, cfOps, fails>>

\* unlockChapter service: updateDoc / setDoc, then the success branch of the
\* caller: setUnlockedChapters, refetchUserProfile, return true, and
\* handleScroll's loadChapterContent(nextChapterIndex)
\* (variant: the success branch subtracts the price locally and leaves the
\* list alone)
MarkWriteSubtractingLocally(u) ==
  /\ u \in unlocks
  /\ u.pc = "markWrite"
  /\ unlocks' = unlocks \ {u}
  /\ IF u.exists
     THEN doc' = [doc EXCEPT !.unlockedChapters = Push(u.unlockedChapters, u.chapter)]
     ELSE doc' = [NoDoc EXCEPT !.exists = TRUE, !.unlockedChapters = <<u.chapter>>]
  /\ IF Live(u.sess)
     THEN /\ ui' = LoadChapterContent(
                     [ui EXCEPT !.coins = @ - CoinCost], u.clo, u.chapter)
          /\ profile' = profile
     ELSE UNCHANGED <<ui, profile>>
  /\ UNCHANGED <<sess, view, timers, dialogs, load, restore, races, story, cloud, coins,
                 choiceOps, nameOps, cfOps, fails>>
\* (variant: the write of an unlock whose screen is gone is dropped)
MarkWriteWhileMounted(u) ==
  /\ u \in unlocks
  /\ u.pc = "markWrite"
  /\ unlocks' = unlocks \ {u}
  /\ IF Live(u.sess)
     THEN /\ doc' = [doc EXCEPT !.exists = TRUE,
                                !.unlockedChapters = Push(u.unlockedChapters, u.chapter)]
          /\ ui' = LoadChapterContent(
                     [ui EXCEPT !.unlockedChapters = @ \cup {u.chapter}], u.clo, u.chapter)
          /\ profile' = "pending"
     ELSE UNCHANGED <<doc, ui, profile>>
  /\ UNCHANGED <<sess, view, timers, dialogs, load, restore, races, story, cloud, coins,
                 choiceOps, nameOps, cfOps, fails>>
MarkWrite(u) ==
  /\ u \in unlocks
  /\ u.pc = "markWrite"
  /\ unlocks' = unlocks \ {u}
  /\ IF u.exists
     THEN doc' = [doc EXCEPT !.unlockedChapters = Push(u.unlockedChapters, u.chapter)]
     ELSE doc' = [NoDoc EXCEPT !.exists = TRUE, !.unlockedChapters = <<u.chapter>>]
  /\ IF Live(u.sess)
     THEN /\ ui' = LoadChapterContent(
                     [ui EXCEPT !.unlockedChapters = @ \cup {u.chapter}], u.clo, u.chapter)
          /\ profile' = "pending"
     ELSE UNCHANGED <<ui, profile>>
  /\ UNCHANGED <<sess, view, timers, dialogs, load, restore, races, story, cloud, coins,
                 choiceOps, nameOps, cfOps, fails>>

\* a remote step of unlockChapter fails: the debit returns success=false
\* (return false), or the service returns false (then the refund is attempted)
\* (variant: every failure is followed by a refund)
RefundAfterAnyFailure(u) ==
  /\ u \in unlocks
  /\ u.pc \in {"debitRead", "markRead"}
  /\ Settled
  /\ CanFail
  /\ fails' = fails + 1
  /\ unlocks' = (unlocks \ {u}) \cup {[u EXCEPT !.pc = "refundRead"]}
  /\ UNCHANGED <<Local, Remote, choiceOps, nameOps, cfOps>>
UnlockFail(u) ==
  /\ u \in unlocks
  /\ u.pc \in {"debitRead", "markRead"}
  /\ Settled
  /\ CanFail
  /\ fails' = fails + 1
  /\ IF u.pc = "markRead"
     THEN /\ unlocks' = (unlocks \ {u}) \cup {[u EXCEPT !.pc = "refundRead"]}
          /\ sess' = sess
     ELSE /\ unlocks' = unlocks \ {u}
          /\ sess' = [sess EXCEPT !.alert =
                        AlertOf("Error", "Failed to update coin balance")]
  /\ UNCHANGED <<Screen, Remote, choiceOps, nameOps, cfOps>>

\* the refund fails: `await updateUserCoins(coinCost, 'add')` (line 1477)
\* returns success=false, which is not inspected; the alert and return false
\* follow.  A refund is attempted only after a counted failure of the mark
\* step, so its own failure needs no budget.
RefundFail(u) ==
  /\ u \in unlocks
  /\ u.pc = "refundRead"
  /\ Settled
  /\ unlocks' = unlocks \ {u}
  /\ sess' = [sess EXCEPT !.alert = RefundedAlert]
  /\ UNCHANGED <<Screen, Remote, choiceOps, nameOps, cfOps, fails>>

\* ------------------------------------------------------------------- next
Next ==
  \/ \E a \in BOOLEAN, ic \in InitChapters : Mount(a, ic)
  \/ Unmount
  \/ Render
  \/ TypeName
  \/ HandleStartReading
  \/ \E t \in timers : StartCallback(t)
  \/ \E t \in timers : AnimationEnd(t)
  \/ \E p \in 1 .. Len(view.storySegments), ch \in AllChoices : HandleChoice(p, ch)
  \/ \E t \in timers : ChoiceContinuation(t)
  \/ HandleScroll
  \/ \E d \in dialogs : DialogCancel(d)
  \/ \E d \in dialogs : DialogUnlock(d)
  \/ LoadComplete
  \/ LoadFail
  \/ RestoreStep
  \/ ProfileFetched
  \/ ProfileFail
  \/ \E o \in choiceOps : ChoiceRead(o)
  \/ \E o \in choiceOps : ChoiceWrite(o)
  \/ \E o \in choiceOps : ChoiceFail(o)
  \/ \E o \in nameOps : NameRead(o)
  \/ \E o \in nameOps : NameWrite(o)
  \/ \E o \in nameOps : NameFail(o)
  \/ \E o \in cfOps : CfRead(o)
  \/ \E o \in cfOps : CfWrite(o)
  \/ \E o \in cfOps : CfFail(o)
  \/ \E u \in unlocks : CoinsRead(u)
  \/ \E u \in unlocks : CoinsWrite(u)
  \/ \E u \in unlocks : MarkRead(u)
  \/ \E u \in unlocks : MarkWrite(u)
  \/ \E u \in unlocks : UnlockFail(u)
  \/ \E u \in unlocks : RefundFail(u)

Spec == Init /\ [][Next]_vars

\* ------------------------------------------------- the stream builder alone
\* The chapter builder applied from an up-to-date closure to every decision
\* history over the story's decision points.
RecordsOf(k) ==
  UNION {{[choice |-> ch, response |-> r] :
            r \in {"", SegmentResponse(Segment(k[1], k[2]), ch)}} :
         ch \in Segment(k[1], k[2]).choices}

Histories ==
  UNION {{h \in [K -> UNION {RecordsOf(k) : k \in K}] : \A k \in K : h[k] \in RecordsOf(k)} :
           K \in SUBSET Keys}

InitBuilder ==
  /\ NothingStarted
  /\ \E h \in Histories : ui = [InitialUi EXCEPT !.decisionHistory = h]
  /\ view = ui

\* loadChapterContent(c) called from the closure of the current render
AppendChapter(c) ==
  /\ c \notin ui.loadedChapters
  /\ ui' = LoadChapterContent(ui, ui, c)
  /\ view' = ui'
  /\ UNCHANGED <<sess, timers, dialogs, load, restore, profile, Remote, Ops, fails, races>>

\* loadChapterContentWithHistory(c, history) called the same way
AppendChapterWithHistory(c) ==
  /\ c \notin ui.loadedChapters
  /\ ui' = LoadChapterWith(ui, ui, c, ui.decisionHistory)
  /\ view' = ui'
  /\ UNCHANGED <<sess, timers, dialogs, load, restore, profile, Remote, Ops, fails, races>>

NextBuilder ==
  \/ \E c \in ChapterIdx : AppendChapter(c)
  \/ \E c \in ChapterIdx : AppendChapterWithHistory(c)

SpecBuilder == InitBuilder /\ [][NextBuilder]_vars

\* --------------------------------------------- the persist function alone
\* updateReadingProgress invoked by any client with any chapter of the story
\* and any decisions object holding at most one record.
Deltas == {h \in Histories : Cardinality(DOMAIN h) <= 1 /\ \A k \in DOMAIN h : h[k].response # ""}

\* onCall entry (README lines 99-141)
PersistCall(c, d) ==
  /\ Cardinality(cfOps) < MaxPersists
  /\ cfOps' = cfOps \cup
       {[sess |-> 0, pc |-> "read", chapter |-> c, decisions |-> d, exists |-> FALSE,
         unlockedChapters |-> <<>>, chapterHistory |-> EmptyHistory]}
  /\ UNCHANGED <<Local, Remote, choiceOps, nameOps, unlocks, fails>>

NextPersist ==
  \/ \E c \in ChapterIdx, d \in Deltas : PersistCall(c, d)
  \/ \E o \in cfOps : CfRead(o)
  \/ \E o \in cfOps : CfWrite(o)
  \/ \E o \in cfOps : CfFail(o)

SpecPersist == Init /\ [][NextPersist]_vars

\* ------------------------------------------------- the chapter gate alone
\* isChapterUnlocked of the user service on the user's story document d;
\* `ok` is false when getDoc rejects (the catch block answers false).
IsChapterUnlocked(auth, c, d, ok) ==
  IF ~auth THEN FALSE
  ELSE IF c <= LastFreeChapter THEN TRUE
  ELSE IF ~ok THEN FALSE
  ELSE IF ~d.exists THEN FALSE
  ELSE Includes(d.unlockedChapters, c)

\* The stream of a reader who has read chapters 0..c with history h.
RECURSIVE StreamUpTo(_, _)
StreamUpTo(c, h) ==
  IF c < 0 THEN <<>> ELSE StreamUpTo(c - 1, h) \o BuildChapter(c, h)

ReaderAt(c, h, unlocked) ==
  [InitialUi EXCEPT !.isFirstPage = FALSE,
                    !.characterName = DefaultName,
                    !.currentChapterIndex = c,
                    !.loadedChapters = 0 .. c,
                    !.storySegments = StreamUpTo(c, h),
                    !.decisionHistory = h,
                    !.unlockedChapters = unlocked,
                    !.nextChapterFade =
                       IF NumChapters > 1 /\ ~StopAtDecisionPoint(0, h) THEN 1 ELSE 0]

NoOperation ==
  /\ timers = {}
  /\ dialogs = {}
  /\ restore = NoRestore
  /\ choiceOps = {}
  /\ nameOps = {}
  /\ cfOps = {}
  /\ unlocks = {}
  /\ fails = 0

\* A signed-out reader of the paywalled story who has read up to chapter c,
\* for every content of unlockedChapters (the local list and the list of a
\* user document, present or not); the reader acts between renders only.
InitGate ==
  /\ story = PaywallStory
  /\ cloud = NoCalls
  /\ sess = [n |-> 1, mounted |-> TRUE, auth |-> FALSE, initChapter |-> 0,
             alert |-> NoAlert]
  /\ NoOperation
  /\ load = "none"
  /\ profile = "none"
  /\ coins \in InitCoins
  /\ races = MaxRaces
  /\ \E c \in ChapterIdx, unlocked \in SUBSET ChapterIdx :
       /\ ui = ReaderAt(c, EmptyHistory, unlocked)
       /\ doc \in {NoDoc, [NoDoc EXCEPT !.exists = TRUE,
                                        !.characterName = DefaultName,
                                        !.currentChapter = c,
                                        !.unlockedChapters = ListOf(unlocked)]}
  /\ view = ui

NextGate ==
  \/ HandleScroll
  \/ Render
  \/ \E d \in dialogs : DialogCancel(d)
  \/ \E d \in dialogs : DialogUnlock(d)

SpecGate == InitGate /\ [][NextGate]_vars

\* ------------------------------------------- the unlock transaction alone
\* Remote balances below, at and above the price of a chapter.
UnlockCoins == {3, CoinCost, 7}

\* The user document after a session that started the story and read the
\* free chapters: the name write created it, the cloud function updated
\* currentChapter and left unlockedChapters as it was.
DocAt(c) ==
  [NoDoc EXCEPT !.exists = TRUE, !.characterName = DefaultName, !.currentChapter = c]

\* A signed-in reader at the end of the last free chapter of the paywalled
\* story, the profile fetched and every earlier write completed.  The reader
\* acts at most MaxLateEvents times while something is pending.
InitUnlock ==
  /\ story = PaywallStory
  /\ cloud = NoCalls
  /\ sess = [n |-> 1, mounted |-> TRUE, auth |-> TRUE, initChapter |-> 0,
             alert |-> NoAlert]
  /\ NoOperation
  /\ load = "done"
  /\ profile = "done"
  /\ coins \in UnlockCoins
  /\ races = MaxRaces - MaxLateEvents
  /\ doc = DocAt(LastFreeChapter)
  /\ ui = [ReaderAt(LastFreeChapter, EmptyHistory, 0 .. LastFreeChapter)
            EXCEPT !.coins = coins]
  /\ view = ui

NextUnlock ==
  \/ Unmount
  \/ Render
  \/ HandleScroll
  \/ \E d \in dialogs : DialogCancel(d)
  \/ \E d \in dialogs : DialogUnlock(d)
  \/ ProfileFetched
  \/ ProfileFail
  \/ \E o \in cfOps : CfRead(o)
  \/ \E o \in cfOps : CfWrite(o)
  \/ \E o \in cfOps : CfFail(o)
  \/ \E u \in unlocks : CoinsRead(u)
  \/ \E u \in unlocks : CoinsWrite(u)
  \/ \E u \in unlocks : MarkRead(u)
  \/ \E u \in unlocks : MarkWrite(u)
  \/ \E u \in unlocks : UnlockFail(u)
  \/ \E u \in unlocks : RefundFail(u)

SpecUnlock == InitUnlock /\ [][NextUnlock]_vars

\* ------------------------------------------------- the returning reader
\* The user document of a reader who unlocked the first paid chapter and
\* left before the persist of that chapter: currentChapter is the last free
\* chapter, unlockedChapters holds the paid one.
UnlockedDoc ==
  [DocAt(LastFreeChapter) EXCEPT !.unlockedChapters = <<LastFreeChapter + 1>>]

\* Remote balance of the returning reader: the unlock left 2 of 7, then
\* 5 coins were added.
ReturnCoins == {7}

\* The paywalled story is opened again by that reader, signed in.
InitReturn ==
  /\ story = PaywallStory
  /\ cloud = NoCalls
  /\ sess = [n |-> 0, mounted |-> FALSE, auth |-> FALSE, initChapter |-> 0,
             alert |-> NoAlert]
  /\ NoOperation
  /\ load = "none"
  /\ profile = "none"
  /\ doc = UnlockedDoc
  /\ coins \in ReturnCoins
  /\ races = 0
  /\ ui = InitialUi
  /\ view = InitialUi

NextReturn ==
  \/ \E ic \in InitChapters : Mount(TRUE, ic)
  \/ Unmount
  \/ Render
  \/ TypeName
  \/ HandleStartReading
  \/ \E t \in timers : StartCallback(t)
  \/ \E t \in timers : AnimationEnd(t)
  \/ HandleScroll
  \/ \E d \in dialogs : DialogCancel(d)
  \/ \E d \in dialogs : DialogUnlock(d)
  \/ LoadComplete
  \/ LoadFail
  \/ RestoreStep
  \/ ProfileFetched
  \/ ProfileFail
  \/ \E o \in nameOps : NameRead(o)
  \/ \E o \in nameOps : NameWrite(o)
  \/ \E o \in nameOps : NameFail(o)
  \/ \E o \in cfOps : CfRead(o)
  \/ \E o \in cfOps : CfWrite(o)
  \/ \E o \in cfOps : CfFail(o)
  \/ \E u \in unlocks : CoinsRead(u)
  \/ \E u \in unlocks : CoinsWrite(u)
  \/ \E u \in unlocks : MarkRead(u)
  \/ \E u \in unlocks : MarkWrite(u)
  \/ \E u \in unlocks : UnlockFail(u)
  \/ \E u \in unlocks : RefundFail(u)

SpecReturn == InitReturn /\ [][NextReturn]_vars

\* --------------------------------------------------- reading and persisting
\* A signed-in reader of the branching story right after Start: chapter 0 is
\* shown up to its first decision, the name write and the first persist have
\* completed.  The reader acts at most MaxLateEvents times while something
\* is pending.
InitReading ==
  /\ story = BranchingStory
  /\ cloud = NoCalls
  /\ sess = [n |-> 1, mounted |-> TRUE, auth |-> TRUE, initChapter |-> 0,
             alert |-> NoAlert]
  /\ NoOperation
  /\ load = "done"
  /\ profile = "done"
  /\ coins \in InitCoins
  /\ races = MaxRaces - MaxLateEvents
  /\ doc = DocAt(0)
  /\ ui = [ReaderAt(0, EmptyHistory, {0}) EXCEPT !.coins = coins]
  /\ view = ui

NextReading ==
  \/ Render
  \/ \E p \in 1 .. Len(view.storySegments), ch \in AllChoices : HandleChoice(p, ch)
  \/ \E t \in timers : ChoiceContinuation(t)
  \/ HandleScroll
  \/ \E o \in choiceOps : ChoiceRead(o)
  \/ \E o \in choiceOps : ChoiceWrite(o)
  \/ \E o \in choiceOps : ChoiceFail(o)
  \/ \E o \in cfOps : CfRead(o)
  \/ \E o \in cfOps : CfWrite(o)
  \/ \E o \in cfOps : CfFail(o)

SpecReading == InitReading /\ [][NextReading]_vars

\* ------------------------------------------------ operations after teardown
\* A step of a remote operation in flight.  Promises already started are
\* not cancelled by leaving the screen, and the event loop runs every
\* callback that is ready.
RemoteStep ==
  \/ \E u \in unlocks :
       \/ CoinsRead(u)
       \/ CoinsWrite(u)
       \/ MarkRead(u)
       \/ MarkWrite(u)
       \/ UnlockFail(u)
       \/ RefundFail(u)
  \/ \E o \in cfOps : CfRead(o) \/ CfWrite(o) \/ CfFail(o)

\* The reader of InitUnlock who can pay and acts between steps only.
InitTeardown ==
  /\ story = PaywallStory
  /\ cloud = NoCalls
  /\ sess = [n |-> 1, mounted |-> TRUE, auth |-> TRUE, initChapter |-> 0,
             alert |-> NoAlert]
  /\ NoOperation
  /\ load = "done"
  /\ profile = "done"
  /\ coins \in UnlockCoins \ {3}
  /\ races = MaxRaces
  /\ doc = DocAt(LastFreeChapter)
  /\ ui = [ReaderAt(LastFreeChapter, EmptyHistory, 0 .. LastFreeChapter)
            EXCEPT !.coins = coins]
  /\ view = ui

SpecTeardown == InitTeardown /\ [][NextUnlock]_vars /\ WF_vars(RemoteStep)

\* ==================================================================== C1
\* The unlock call `u` returns through its refund branch: the debit was
\* written, the mark step failed, and the refund either completed or was
\* rejected.
RefundReturn(u) ==
  /\ u.pc \in {"refundRead", "refundWrite"}
  /\ \A v \in unlocks' : v.id # u.id

\* C1: when unlock(i, cost) returns after a successful debit and a failed
\* mark-chapter-unlocked step, the remote coin balance equals its value
\* before the call and i is in neither the local nor the remote
\* unlockedChapters (no other unlock call being alive meanwhile).
C1_RefundRestoresBalance ==
  [][\A u \in unlocks :
       (u.solo /\ RefundReturn(u)) =>
         /\ coins' = u.before
         /\ ~Includes(doc'.unlockedChapters, u.chapter)
         /\ u.chapter \notin ui'.unlockedChapters]_vars

\* ==================================================================== C2
\* the debit of the call has been written to the remote balance
Debited(u) == u.pc \in {"markRead", "markWrite", "refundRead", "refundWrite"}

\* C2: of the unlock calls concurrently in flight for one chapter index at
\* most one has debited the remote balance.
C2_SingleDebitPerChapter ==
  \A u, v \in unlocks :
    (u.chapter = v.chapter /\ Debited(u) /\ Debited(v)) => u.id = v.id

\* ==================================================================== C3
ChoiceKeys(choices) ==
  {<<choices[n].chapterIndex, choices[n].segmentIndex>> : n \in DOMAIN choices}

\* C3: a write of a progress cycle (cloud-function persist, choice write,
\* unlock write) never removes from the remote document a decision record or
\* an unlocked chapter that another cycle has written: the document only
\* grows under these writes, also when the cycles overlap.
C3_NoLostUpdate ==
  [][nameOps' = nameOps =>
       /\ Range(doc.unlockedChapters) \subseteq Range(doc'.unlockedChapters)
       /\ DOMAIN doc.chapterHistory \subseteq DOMAIN doc'.chapterHistory
       /\ ChoiceKeys(doc.userChoices) \subseteq ChoiceKeys(doc'.userChoices)]_vars

\* ==================================================================== C4
\* C4: a handleChoice on a decision that already has a record in the
\* session's decision history leaves that record (choice and response)
\* unchanged, also when the tap is handled before the re-render.
C4_FirstChoiceWins ==
  [][\A p \in DOMAIN view.storySegments, ch \in AllChoices :
       HandleChoice(p, ch) =>
         LET k == <<view.storySegments[p].chapterIndex, view.storySegments[p].index>> IN
         HasEntry(ui.decisionHistory, k) =>
           ui'.decisionHistory[k] = ui.decisionHistory[k]]_vars

\* ==================================================================== C5
\* a Decision segment of the stream with no recorded answer
Blocking(e) ==
  /\ Unanswered(e)
  /\ ~HasEntry(ui.decisionHistory, <<e.chapterIndex, e.index>>)

\* C5: if the visible stream holds an unanswered Decision segment of
\* chapter c at segment position i, it holds no segment of chapter c at a
\* position greater than i.
C5_NothingAfterUnanswered ==
  \A p, q \in DOMAIN ui.storySegments :
    (Blocking(ui.storySegments[p])
       /\ ui.storySegments[q].chapterIndex = ui.storySegments[p].chapterIndex)
    => ui.storySegments[q].index <= ui.storySegments[p].index

\* ==================================================================== C6
\* C6: each (chapterIndex, segmentIndex) pair appears in the stream at most
\* once, whatever append requests were made.
C6_NoDuplicateSegments ==
  \A p, q \in DOMAIN ui.storySegments :
    (/\ ui.storySegments[p].chapterIndex = ui.storySegments[q].chapterIndex
     /\ ui.storySegments[p].index = ui.storySegments[q].index) => p = q

\* ==================================================================== C7
\* the decision has a record in the remote document
RemoteRecord(k) ==
  k \in ChoiceKeys(doc.userChoices) \/ HasEntry(doc.chapterHistory, k)

\* C7: while the progress load is pending the stream holds no segment of a
\* chapter beyond index 0, and a decision with a remote record is never in
\* the stream as an unanswered (blocking) decision.
C7_LoadBeforeExpansion ==
  /\ load = "pending" =>
       \A p \in DOMAIN ui.storySegments : ui.storySegments[p].chapterIndex = 0
  /\ \A p \in DOMAIN ui.storySegments :
       Blocking(ui.storySegments[p]) =>
         ~RemoteRecord(<<ui.storySegments[p].chapterIndex, ui.storySegments[p].index>>)

\* ==================================================================== C8
\* the stream's segments of chapter c, in stream order
ChapterPart(c) == SelectSeq(ui.storySegments, LAMBDA e : e.chapterIndex = c)

\* C8: the stream built for a chapter holds the chapter's segments in order
\* from segment 0; a decision with a record in the history is emitted with
\* the recorded choice and response and is followed by the next segment;
\* the build ends before the chapter's end only at a decision without a
\* record.
C8_AnsweredDecisionsDoNotBlock ==
  \A c \in ui.loadedChapters :
    LET part == ChapterPart(c)
        h == ui.decisionHistory
    IN /\ Len(part) >= 1
       /\ Len(part) <= Len(Chapter(c))
       /\ \A n \in DOMAIN part :
            /\ part[n].index = n - 1
            /\ (part[n].type = "decisionPoint" /\ HasEntry(h, <<c, n - 1>>)) =>
                 /\ part[n].selectedChoice = h[<<c, n - 1>>].choice
                 /\ h[<<c, n - 1>>].response # "" =>
                      part[n].response = h[<<c, n - 1>>].response
                 /\ n < Len(Chapter(c)) => Len(part) > n
       /\ Len(part) < Len(Chapter(c)) =>
            /\ part[Len(part)].type = "decisionPoint"
            /\ ~HasEntry(h, <<c, Len(part) - 1>>)

\* a chapter was built past a decision that has a record
C8_Witness ==
  \E c \in ui.loadedChapters :
    \E n \in DOMAIN ChapterPart(c) :
      /\ ChapterPart(c)[n].type = "decisionPoint"
      /\ ChapterPart(c)[n].selectedChoice # NoChoice
      /\ Len(ChapterPart(c)) > n

\* ==================================================================== C9
\* C9: when the progress load resolves, every record of the session's
\* decision history is still there with the same choice and response.
C9_HydrationKeepsLocal ==
  [][(load = "pending" /\ load' = "done") =>
       \A k \in DOMAIN ui.decisionHistory :
         HasEntry(ui.decisionHistory, k) =>
           /\ k \in DOMAIN ui'.decisionHistory
           /\ ui'.decisionHistory[k] = ui.decisionHistory[k]]_vars

\* =================================================================== C10
\* the cloud function writes what it computed from the document as it is
SequentialWrite(o) ==
  /\ CfWrite(o)
  /\ o.exists = doc.exists
  /\ o.chapterHistory = doc.chapterHistory

C12_InsufficientCoinsChangesNothing ==
  [][\A d \in dialogs :
       (DialogUnlock(d) /\ sess.auth /\ d.clo.coins # NoProfile
                        /\ d.clo.coins < CoinCost) =>
         /\ sess'.alert.title = "Insufficient Coins"
         /\ sess'.alert.cost = CoinCost
         /\ sess'.alert.balance = d.clo.coins
         /\ unlocks' = unlocks
         /\ ui' = ui
         /\ coins' = coins
         /\ doc' = doc]_vars

\* the reader with 3 coins was told so at the first paid chapter
C12_Witness ==
  /\ sess.alert.title = "Insufficient Coins"
  /\ sess.alert.balance = 3
  /\ coins = 3
  /\ unlocks = {}
  /\ ui.unlockedChapters = 0 .. LastFreeChapter
  /\ LastFreeChapter + 1 \notin ui.loadedChapters

\* =================================================================== C13
\* C13: "Unlock" pressed by a reader who is not signed in shows
\* 'Authentication Required' and nothing else happens: no remote debit,
\* mark-unlocked or refund call is started, and unlockedChapters, the
\* mirrored balance, the stream, the remote balance and the document stay
\* as they were.
C13_SignedOutUnlockChangesNothing ==
  [][\A d \in dialogs :
       (DialogUnlock(d) /\ ~sess.auth) =>
         /\ sess'.alert.title = "Authentication Required"
         /\ unlocks' = unlocks
         /\ ui' = ui
         /\ coins' = coins
         /\ doc' = doc]_vars

\* the signed-out reader was turned away at the first paid chapter
C13_Witness ==
  /\ ~sess.auth
  /\ sess.alert.title = "Authentication Required"
  /\ unlocks = {}
  /\ view.currentChapterIndex = LastFreeChapter
  /\ LastFreeChapter + 1 \notin ui.unlockedChapters
  /\ LastFreeChapter + 1 \notin ui.loadedChapters

\* =================================================================== C14
\* C14: when the debit of an unlock reports failure the unlock ends there
\* with the error alert: the call is over (mark-chapter-unlocked and refund
\* are never reached), and the local state, the remote balance and the
\* remote document are as before.
C14_FailedDebitAborts ==
  [][\A u \in unlocks :
       (UnlockFail(u) /\ u.pc = "debitRead") =>
         /\ sess'.alert.message = "Failed to update coin balance"
         /\ \A v \in unlocks' : v.id # u.id
         /\ ui' = ui
         /\ coins' = coins
         /\ doc' = doc]_vars

\* the only unlock call ended at its debit
C14_Witness ==
  /\ sess.alert.message = "Failed to update coin balance"
  /\ unlocks = {}
  /\ fails = 1
  /\ coins \in UnlockCoins
  /\ ~Includes(doc.unlockedChapters, LastFreeChapter + 1)
  /\ LastFreeChapter + 1 \notin ui.unlockedChapters

\* =================================================================== C15
\* C15: when the debit and the mark-unlocked step of an unlock of chapter i
\* have both succeeded, i is in the local unlockedChapters, the mirrored
\* balance is left as it was and a fetch of the profile is started; the
\* fetch, when it answers, sets the mirror to the remote balance; and while
\* the screen stays mounted unlockedChapters loses no chapter, so i is not
\* locked again.
C15_SuccessUnlocksAndRefetches ==
  /\ [][\A u \in unlocks :
          (MarkWrite(u) /\ Live(u.sess)) =>
            /\ u.chapter \in ui'.unlockedChapters
            /\ ~IsChapterLocked(u.chapter, ui'.unlockedChapters)
            /\ ui'.coins = ui.coins
            /\ profile' = "pending"]_vars
  /\ [][(profile = "pending" /\ profile' = "done" /\ fails' = fails) =>
          ui'.coins = coins]_vars
  /\ [][(sess.mounted /\ sess'.mounted) =>
          /\ ui.unlockedChapters \subseteq ui'.unlockedChapters
          /\ view.unlockedChapters \subseteq view'.unlockedChapters]_vars

\* the first paid chapter was unlocked and the mirror shows the remote
\* balance after the debit
C15_Witness ==
  /\ sess.mounted
  /\ LastFreeChapter + 1 \in view.unlockedChapters
  /\ Includes(doc.unlockedChapters, LastFreeChapter + 1)
  /\ unlocks = {}
  /\ profile = "done"
  /\ fails = 0
  /\ coins = 2
  /\ ui.coins = coins

\* =================================================================== C16
\* entries of chapter c in a stream
EntriesOf(segs, c) == {i \in DOMAIN segs : segs[i].chapterIndex = c}
\* the step appends segments of chapter c to the stream
Appended(c) ==
  Cardinality(EntriesOf(ui'.storySegments, c))
    > Cardinality(EntriesOf(ui.storySegments, c))

C17_UnlockIsPermanent ==
  /\ [][\A c \in ChapterIdx :
          (c > LastFreeChapter /\ Includes(doc.unlockedChapters, c)) =>
            Includes(doc'.unlockedChapters, c)]_vars
  /\ [][\A d \in dialogs :
          (DialogUnlock(d) /\ unlocks' # unlocks) =>
            ~Includes(doc.unlockedChapters, d.chapter)]_vars

\* =================================================================== C18
\* C18: in a session whose progress load was rejected, no write lowers the
\* remote currentChapter and none removes a record of the remote decision
\* history.
C18_FailedLoadKeepsProgress ==
  [][load = "failed" =>
       /\ doc'.currentChapter >= doc.currentChapter
       /\ ChoiceKeys(doc.userChoices) \subseteq ChoiceKeys(doc'.userChoices)
       /\ \A k \in DOMAIN doc.chapterHistory :
            HasEntry(doc.chapterHistory, k) => HasEntry(doc'.chapterHistory, k)]_vars

\* =================================================================== C19
\* a persist (the cloud function call or the choice write) is rejected
PersistFailure ==
  \/ \E o \in cfOps : CfFail(o)
  \/ \E o \in choiceOps : ChoiceFail(o)

\* C19: a rejected persist leaves the screen's state (stream, decision
\* history, currentChapterIndex, unlockedChapters, pending continuations)
\* as it was; and after any number of rejected persists a reader with
\* nothing pending can answer every decision that is shown and can move on
\* from the end of a chapter.
C19_FailedPersistIsHarmless ==
  /\ [][PersistFailure =>
          /\ ui' = ui
          /\ view' = view
          /\ timers' = timers
          /\ dialogs' = dialogs]_vars
  /\ []((fails > 0 /\ sess.mounted /\ ~Busy) =>
          /\ \A p \in DOMAIN view.storySegments :
               ChoicesShown(p) =>
                 \A ch \in Segment(view.storySegments[p].chapterIndex,
                                   view.storySegments[p].index).choices :
                   ENABLED HandleChoice(p, ch)
          /\ AtChapterEnd(view) => ENABLED HandleScroll)

\* the choice write of the first decision was rejected; the reader went on,
\* answered the rest and reached the last chapter
C19_Witness ==
  /\ sess.mounted
  /\ fails > 0
  /\ OpsInFlight = 0
  /\ <<0, 1>> \notin ChoiceKeys(doc.userChoices)
  /\ <<1, 1>> \in ChoiceKeys(doc.userChoices)
  /\ \A k \in Keys : HasEntry(ui.decisionHistory, k)
  /\ ui.currentChapterIndex = 1

\* =================================================================== C20
\* the render commits a new choice or a chapter change of a signed-in reader
CommitsProgress ==
  /\ Render
  /\ sess.auth
  /\ ~ui.isFirstPage
  /\ \/ view.decisionHistory # ui.decisionHistory
     \/ view.currentChapterIndex # ui.currentChapterIndex

Ended(u) == \A v \in unlocks' : v.id # u.id

\* C21: an unlock call whose debit was carried out ends only by marking the
\* chapter unlocked in the remote document or after it has issued the
\* refund, whether the screen is still mounted or not; and once the screen
\* is gone every unlock call and every persist call in flight comes to its
\* end.
C21_TeardownDoesNotCancel ==
  /\ [][\A u \in unlocks :
          (u.pc \notin {"debitRead", "debitWrite"} /\ Ended(u)) =>
            \/ u.pc = "markWrite" /\ Includes(doc'.unlockedChapters, u.chapter)
            \/ u.pc \in {"refundRead", "refundWrite"}]_vars
  /\ (~sess.mounted /\ unlocks # {}) ~> (unlocks = {})
  /\ (~sess.mounted /\ cfOps # {}) ~> (cfOps = {})

\* the screen is gone, the call that was in flight is over, and the chapter
\* it paid for is unlocked in the remote document
C21_Witness ==
  /\ ~sess.mounted
  /\ unlocks = {}
  /\ fails = 0
  /\ coins = 2
  /\ Includes(doc.unlockedChapters, LastFreeChapter + 1)
  /\ doc.currentChapter = LastFreeChapter

\* ------------------------------------------------- the reader who comes back
\* The user document of a reader of the branching story who answered every
\* decision with the first choice and reached the last chapter, every persist
\* call having succeeded.  In the second document the choice write of the
\* first decision had been rejected (the catch of handleChoice), so that
\* userChoices lacks it.
ReadHistory ==
  [k \in Keys |-> [choice |-> "A",
                   response |-> SegmentResponse(Segment(k[1], k[2]), "A")]]

ChoiceOf(k) ==
  [chapterIndex |-> k[1], segmentIndex |-> k[2],
   choice |-> ReadHistory[k].choice, response |-> ReadHistory[k].response]

ReadDoc(choices) ==
  [DocAt(NumChapters - 1) EXCEPT !.userChoices = choices,
                                 !.chapterHistory = ReadHistory]

ReadDocs ==
  {ReadDoc(<<ChoiceOf(<<0, 1>>), ChoiceOf(<<0, 2>>), ChoiceOf(<<1, 1>>)>>),
   ReadDoc(<<ChoiceOf(<<0, 2>>), ChoiceOf(<<1, 1>>)>>)}

\* The branching story is opened again by that reader, signed in; the reader
\* acts at most MaxLateEvents times while something is pending.
InitResume ==
  /\ story = BranchingStory
  /\ cloud = NoCalls
  /\ sess = [n |-> 0, mounted |-> FALSE, auth |-> FALSE, initChapter |-> 0,
             alert |-> NoAlert]
  /\ NoOperation
  /\ load = "none"
  /\ profile = "none"
  /\ doc \in ReadDocs
  /\ coins \in InitCoins
  /\ races = MaxRaces - MaxLateEvents
  /\ ui = InitialUi
  /\ view = InitialUi

NextResume ==
  \/ \E ic \in InitChapters : Mount(TRUE, ic)
  \/ Unmount
  \/ Render
  \/ \E p \in 1 .. Len(view.storySegments), ch \in AllChoices : HandleChoice(p, ch)
  \/ \E t \in timers : ChoiceContinuation(t)
  \/ LoadComplete
  \/ LoadFail
  \/ RestoreStep
  \/ ProfileFetched
  \/ ProfileFail
  \/ \E o \in choiceOps : ChoiceRead(o)
  \/ \E o \in choiceOps : ChoiceWrite(o)
  \/ \E o \in choiceOps : ChoiceFail(o)
  \/ \E o \in cfOps : CfRead(o)
  \/ \E o \in cfOps : CfWrite(o)
  \/ \E o \in cfOps : CfFail(o)

SpecResume == InitResume /\ [][NextResume]_vars

\* =================================================================== C22
\* C22: when loadUserProgress completes, every decision held by the remote
\* decision history that the persist call writes (chapterHistory) is in the
\* decision history the reader gets, under the same key with the same choice
\* and response.
C22_PersistedDecisionsAreLoaded ==
  [][LoadComplete =>
       \A k \in Keys :
         HasEntry(doc.chapterHistory, k) =>
           /\ HasEntry(ui'.decisionHistory, k)
           /\ ui'.decisionHistory[k] = doc.chapterHistory[k]]_vars

\* ------------------------------------------------ a chapter without content
\* fetchStoryContent returns a chapter whose pages subcollection is empty as
\* a chapter with no content (it only warns): the second chapter here.
GappedStory ==
  << <<TextSeg, DecisionAB>>, <<>>, <<DecisionA, TextSeg>>, <<TextSeg>> >>

\* The chapter builder of SpecBuilder over that story.
InitContent ==
  /\ story = GappedStory
  /\ cloud = NoCalls
  /\ sess = [n |-> 0, mounted |-> FALSE, auth |-> FALSE, initChapter |-> 0,
             alert |-> NoAlert]
  /\ NoOperation
  /\ load = "none"
  /\ profile = "none"
  /\ doc = NoDoc
  /\ coins \in InitCoins
  /\ races = 0
  /\ \E h \in Histories : ui = [InitialUi EXCEPT !.decisionHistory = h]
  /\ view = ui

SpecContent == InitContent /\ [][NextBuilder]_vars

\* =================================================================== C23
\* C23: a chapter whose segments list is empty is never put into the
\* loaded-chapters set: loading it is refused, not carried out as an append
\* of nothing.
C23_EmptyChapterIsRefused ==
  \A c \in ui.loadedChapters : Chapter(c) # <<>>

\* ------------------------------------------------ the cloud functions alone
\* The two callable functions invoked by any client, one call at a time:
\* without a signed-in user, by the reader or by a second user, with request
\* data that names either user.
LibraryOf(userId) == IF userId = "reader" THEN doc ELSE cloud.doc
BalanceOf(userId) == IF userId = "reader" THEN coins ELSE cloud.coins

\* (variant: the user id is taken from the request data)
RequestedUserId(context, data) == data.userId
\* const userId = context.auth.uid (README lines 109 and 232)
ContextUserId(context, data) == context

\* libraryItemRef.get() followed by update or set (README lines 141-196)
ProgressStored(d, chapter, decisions) ==
  IF d.exists
  THEN [d EXCEPT !.currentChapter = chapter,
                 !.unlockedChapters = CfUnlocked(d.unlockedChapters, chapter),
                 !.chapterHistory = Merge(d.chapterHistory, decisions)]
  ELSE [NoDoc EXCEPT !.exists = TRUE,
                     !.currentChapter = chapter,
                     !.unlockedChapters = CfUnlocked(InitialUnlockedChapters, chapter),
                     !.chapterHistory = decisions]

\* what a handled call leaves behind: the store of both users and the log
Handled(fn, context, error, touched, readerDoc, readerCoins, strangerDoc, strangerCoins) ==
  /\ cloud.n < MaxCalls
  /\ doc' = readerDoc
  /\ coins' = readerCoins
  /\ cloud' = [n |-> cloud.n + 1, fn |-> fn, caller |-> context, error |-> error,
               touched |-> touched, doc |-> strangerDoc, coins |-> strangerCoins,
               pending |-> cloud.pending, userDoc |-> cloud.userDoc,
               signIns |-> cloud.signIns]
  /\ UNCHANGED <<Local, story, Ops, fails>>

\* updateReadingProgress = functions.https.onCall(...) (README lines 99-214)
UpdateReadingProgress(context, data) ==
  IF context = NoContext
  THEN Handled("updateReadingProgress", context, "unauthenticated", {},
               doc, coins, cloud.doc, cloud.coins)
  ELSE LET userId == ContextUserId(context, data)
           stored == ProgressStored(LibraryOf(userId), data.currentChapter, data.decisions)
       IN Handled("updateReadingProgress", context, "", {userId},
                  IF userId = "reader" THEN stored ELSE doc, coins,
                  IF userId = "reader" THEN cloud.doc ELSE stored, cloud.coins)

\* updateUserCoins = functions.https.onCall(...) (README lines 222-308)
UpdateUserCoins(context, data) ==
  IF context = NoContext
  THEN Handled("updateUserCoins", context, "unauthenticated", {},
               doc, coins, cloud.doc, cloud.coins)
  ELSE LET userId == ContextUserId(context, data)
           newCoinBalance == NewCoinBalance(BalanceOf(userId), data.amount, data.operation)
       IN Handled("updateUserCoins", context, "", {userId},
                  doc, IF userId = "reader" THEN newCoinBalance ELSE coins,
                  cloud.doc, IF userId = "reader" THEN cloud.coins ELSE newCoinBalance)

Contexts == Users \cup {NoContext}
ProgressRequests ==
  [userId : Users, currentChapter : {0, LastFreeChapter + 1}, decisions : {EmptyHistory}]
CoinRequests ==
  [userId : Users, amount : {CoinCost}, operation : {"add", "subtract"}]

InitFunctions ==
  /\ Init
  /\ story = PaywallStory

NextFunctions ==
  \/ \E context \in Contexts, data \in ProgressRequests : UpdateReadingProgress(context, data)
  \/ \E context \in Contexts, data \in CoinRequests : UpdateUserCoins(context, data)

SpecFunctions == InitFunctions /\ [][NextFunctions]_vars

\* =================================================================== C24
\* the stored documents of everybody but the given user are the same after
\* the step
OthersUntouched(userId) ==
  /\ userId # "reader" => doc' = doc /\ coins' = coins
  /\ userId # "stranger" => cloud'.doc = cloud.doc /\ cloud'.coins = cloud.coins

IndicatorRendered(v) ==
  /\ HasNextChapter(v)
  /\ Len(v.storySegments) > 0
  /\ LET lastSegment == v.storySegments[Len(v.storySegments)] IN
       /\ lastSegment.chapterIndex = v.currentChapterIndex
       /\ lastSegment.index = Len(Chapter(v.currentChapterIndex)) - 1

\* the indicator is on the screen with its opacity raised
NextChapterSignalled == IndicatorRendered(view) /\ ui.nextChapterFade = 1

\* C25: while 'next chapter available' is signalled, the last visible
\* segment is the final segment of the current chapter, it is not an
\* unanswered decision, and a following chapter exists.
C25_SignalOnlyAtNaturalEnd ==
  NextChapterSignalled =>
    LET last == view.storySegments[Len(view.storySegments)] IN
      /\ last.chapterIndex = view.currentChapterIndex
      /\ last.index = Len(Chapter(view.currentChapterIndex)) - 1
      /\ ~Unanswered(last)
      /\ view.currentChapterIndex < NumChapters - 1

Count(list, x) == Cardinality({i \in DOMAIN list : list[i] = x})

\* C27: a persist call that runs after the previous one has completed, with
\* a chapter from the threshold on, leaves that chapter exactly once in the
\* remote unlockedChapters and every other element as it was; with a chapter
\* below the threshold it leaves the stored list as it was.
C27_PersistUnlocksPaidChapterOnce ==
  [][\A o \in cfOps :
       (CfWrite(o) /\ o.exists /\ doc.exists
          /\ o.unlockedChapters = doc.unlockedChapters) =>
         IF o.chapter >= LastFreeChapter + 1
         THEN /\ Count(doc'.unlockedChapters, o.chapter) = 1
              /\ \A c \in ChapterIdx \ {o.chapter} :
                   Count(doc'.unlockedChapters, c) = Count(doc.unlockedChapters, c)
         ELSE doc'.unlockedChapters = doc.unlockedChapters]_vars

\* the paid chapter has been persisted and after it a free chapter: the list
\* holds the paid chapter once
C27_Witness ==
  /\ cfOps = {}
  /\ fails = 0
  /\ doc.currentChapter = 0
  /\ doc.unlockedChapters = <<0, 1, 2, 3, 4, LastFreeChapter + 1>>

\* =================================================================== C28
\* C28: when a persist call of the mounted session succeeds while no name
\* write is in flight, the remote document holds the character name of the
\* session.
C28_PersistLeavesNameStored ==
  [][\A o \in cfOps :
       (CfWrite(o) /\ Live(o.sess) /\ nameOps = {} /\ ui.characterName # NoName) =>
         doc'.characterName = ui.characterName]_vars

\* =================================================================== C29
\* C29: every decision record made by handleChoice, in the session's
\* decision history and in the remote documents it is written to, has a
\* non-empty response: the text the segment's responses map has for the
\* choice when there is one, 'You chose: ' followed by the choice otherwise.
C29_RecordsHaveResponse ==
  /\ \A k \in DOMAIN ui.decisionHistory :
       LET rec == ui.decisionHistory[k]
           responses == Segment(k[1], k[2]).responses
       IN /\ rec.response # ""
          /\ rec.response =
               IF rec.choice \in DOMAIN responses /\ responses[rec.choice] # ""
               THEN responses[rec.choice] ELSE "You chose: " \o rec.choice
  /\ \A n \in DOMAIN doc.userChoices : doc.userChoices[n].response # ""
  /\ \A k \in DOMAIN doc.chapterHistory : doc.chapterHistory[k].response # ""

\* the reader chose B, for which the map has a blank text, then A at a
\* decision without responses
C29_Witness ==
  /\ HasEntry(ui.decisionHistory, <<0, 1>>)
  /\ ui.decisionHistory[<<0, 1>>] = [choice |-> "B", response |-> "You chose: B"]
  /\ HasEntry(ui.decisionHistory, <<0, 2>>)
  /\ ui.decisionHistory[<<0, 2>>].response = "You chose: A"
  /\ Len(doc.userChoices) = 2

\* =================================================================== C30
\* the position of the decision that the handleChoice call of continuation t
\* answered
AnsweredAt(t) ==
  CHOOSE p \in DOMAIN t.segs : t.segs[p] # t.clo.storySegments[p]

\* C30: the continuation of a choice on decision (c, i) adds to the stream
\* exactly the segments i+1, i+2, ... of chapter c up to and including the
\* next unanswered decision of chapter c or the end of chapter c, and leaves
\* the segments that were there as they were, whichever chapter is the
\* current one.
C30_ContinuationStaysInChapter ==
  [][\A t \in timers :
       ChoiceContinuation(t) =>
         LET e == t.segs[AnsweredAt(t)]
             added == BuildFrom(e.chapterIndex, e.index + 1, t.hist)
         IN \E n \in 0 .. Len(t.segs) :
              ui'.storySegments =
                SubSeq(t.segs, 1, n) \o added \o SubSeq(t.segs, n + 1, Len(t.segs))]_vars

\* =================================================================== C31
\* lexicographic order of (chapterIndex, segmentIndex)
Before(a, b) ==
  \/ a.chapterIndex < b.chapterIndex
  \/ a.chapterIndex = b.chapterIndex /\ a.index < b.index

\* C31: the stream is strictly increasing in (chapterIndex, segmentIndex),
\* so no pair is repeated, and the segments of each chapter that are in the
\* stream are the segments 0, 1, ... of that chapter without a gap.
C31_StreamIsOrderedPrefix ==
  /\ \A p, q \in DOMAIN ui.storySegments :
       p < q => Before(ui.storySegments[p], ui.storySegments[q])
  /\ \A p \in DOMAIN ui.storySegments :
       ui.storySegments[p].index > 0 =>
         \E q \in DOMAIN ui.storySegments :
           /\ ui.storySegments[q].chapterIndex = ui.storySegments[p].chapterIndex
           /\ ui.storySegments[q].index = ui.storySegments[p].index - 1

\* ------------------------------------------------- opening at a paid chapter
\* The paywalled story is opened from a link that names the first paid
\* chapter as initialChapter, by a reader who is not signed in.
LinkedChapters == {LastFreeChapter + 1}

InitLinked ==
  /\ Init
  /\ story = PaywallStory

NextLinked ==
  \/ \E ic \in LinkedChapters : Mount(FALSE, ic)
  \/ Unmount
  \/ Render
  \/ TypeName
  \/ HandleStartReading
  \/ \E t \in timers : StartCallback(t)
  \/ \E t \in timers : AnimationEnd(t)

SpecLinked == InitLinked /\ [][NextLinked]_vars

\* =================================================================== C32
\* C32: a chapter from the threshold on that is in the stream or in the local
\* unlockedChapters is recorded as unlocked in the remote document, and such
\* a chapter enters the remote unlockedChapters only by the mark-unlocked
\* write of an unlock call, which follows that call's debit.
C32_NoPaidChapterWithoutPayment ==
  /\ [](\A c \in ChapterIdx :
          (c > LastFreeChapter
             /\ (c \in ui.unlockedChapters
                   \/ \E p \in DOMAIN ui.storySegments : ui.storySegments[p].chapterIndex = c)) =>
            doc.exists /\ Includes(doc.unlockedChapters, c))
  /\ [][\A c \in ChapterIdx :
          (c > LastFreeChapter /\ ~Includes(doc.unlockedChapters, c)
             /\ Includes(doc'.unlockedChapters, c)) =>
            \E u \in unlocks : u.chapter = c /\ u.pc = "markWrite"]_vars

\* =================================================================== C33
\* the debit of an unlock call is written: the cloud function's update
DebitWritten(u) == u.pc = "debitWrite" /\ CoinsWrite(u)

\* C33: every successful unlock takes exactly the price from the remote
\* balance: the debit of an unlock call lowers the remote balance by CoinCost,
\* and an unlock call that completes (the chapter is marked unlocked) has
\* debited a balance of at least CoinCost, so the server's floor at zero never
\* shortened the deduction.
C33_UnlockDeductsFullCost ==
  /\ [][\A u \in unlocks : DebitWritten(u) => coins' = coins - CoinCost]_vars
  /\ [][\A u \in unlocks : MarkWrite(u) => u.read >= CoinCost]_vars

\* ------------------------------------- the coin service called on its own
\* updateUserCoins of the client service (userService.ts lines 435-470)
\* called by a signed-in reader with any amount and operation, and the cloud
\* function behind it reading and updating the balance in two steps.
Amounts == {0 - CoinCost, CoinCost, 3 * CoinCost}
Operations == {"add", "subtract", "set"}

\* (variant: no amount is turned away)
NothingRejected(amount) == FALSE
\* if (amount < 0) (userService.ts line 446)
AmountRejected(amount) == amount < 0

\* updateUserCoins(amount, operation) of the client: the validation, then
\* the call, up to the function's userRef.get() (README line 251)
ClientUpdateUserCoins(amount, operation) ==
  /\ cloud.n < MaxCalls
  /\ IF AmountRejected(amount)
     THEN cloud' = [cloud EXCEPT !.n = @ + 1, !.fn = "updateUserCoins",
                                 !.caller = "reader", !.touched = {},
                                 !.error = "Amount cannot be negative"]
     ELSE IF ~cloud.userDoc
     THEN cloud' = [cloud EXCEPT !.n = @ + 1, !.fn = "updateUserCoins",
                                 !.caller = "reader", !.touched = {},
                                 !.error = "Failed to update coin balance"]
     ELSE cloud' = [cloud EXCEPT !.n = @ + 1, !.fn = "updateUserCoins",
                                 !.caller = "reader", !.touched = {}, !.error = "",
                                 !.pending = @ \cup
                                   {[id |-> cloud.n + 1, amount |-> amount,
                                     operation |-> operation, read |-> coins]}]
  /\ UNCHANGED <<Local, story, doc, coins, Ops, fails>>

\* the switch and userRef.update({ coins: newCoinBalance }) (README 271-296)
CoinsUpdated(c) ==
  /\ c \in cloud.pending
  /\ coins' = NewCoinBalance(c.read, c.amount, c.operation)
  /\ cloud' = [cloud EXCEPT !.pending = @ \ {c}, !.touched = {"reader"}]
  /\ UNCHANGED <<Local, story, doc, Ops, fails>>

InitCoinService ==
  /\ Init
  /\ story = PaywallStory

NextCoinService ==
  \/ \E amount \in Amounts, operation \in Operations :
       ClientUpdateUserCoins(amount, operation)
  \/ \E c \in cloud.pending : CoinsUpdated(c)

SpecCoinService == InitCoinService /\ [][NextCoinService]_vars

\* =================================================================== C34
\* C34: the remote balance is never negative, whatever updateUserCoins calls
\* the client makes and however their reads and updates interleave; a call
\* with a negative amount is answered by the client itself and changes
\* neither the balance nor the calls in progress; a subtraction of more than
\* the balance it read leaves the balance at 0.
C34_BalanceNeverNegative ==
  /\ [](coins >= 0)
  /\ [][cloud'.n # cloud.n =>
          \/ cloud'.error = "" /\ cloud'.pending # cloud.pending
          \/ /\ cloud'.error = "Amount cannot be negative"
             /\ coins' = coins
             /\ cloud'.pending = cloud.pending]_vars
  /\ [][\A c \in cloud.pending :
          (CoinsUpdated(c) /\ c.operation = "subtract" /\ c.amount > c.read) =>
            coins' = 0]_vars

\* a subtraction larger than the balance has emptied it and a later call with
\* a negative amount was turned away
C34_Witness ==
  /\ coins = 0
  /\ cloud.n >= 2
  /\ cloud.error = "Amount cannot be negative"
  /\ cloud.pending = {}

\* =================================================================== C35
\* the choice the decision history records for a stream entry
Recorded(e) ==
  LET k == <<e.chapterIndex, e.index>>
  IN IF HasEntry(ui.decisionHistory, k) THEN ui.decisionHistory[k].choice ELSE NoChoice

\* C35: the annotations of the stream and the decision history agree: every
\* decision segment of the stream shows choice x exactly when the history
\* records x under its key (and shows none exactly when nothing is recorded),
\* so no choice the reader made is missing from the history.
C35_StreamAgreesWithHistory ==
  \A p \in DOMAIN ui.storySegments :
    ui.storySegments[p].type = "decisionPoint" =>
      ui.storySegments[p].selectedChoice = Recorded(ui.storySegments[p])

\* =================================================================== C36
\* entry e, with its annotation, is in the stream segs
Shown(segs, e) == \E q \in DOMAIN segs : segs[q] = e

\* C36: the delayed continuation of a choice only adds to the stream: every
\* entry of the stream as it is when the continuation fires, with the choice
\* and response it carries, is still in the stream afterwards.
C36_ContinuationOnlyAdds ==
  [][\A t \in timers :
       ChoiceContinuation(t) =>
         \A p \in DOMAIN ui.storySegments :
           Shown(ui'.storySegments, ui.storySegments[p])]_vars

\* =================================================================== C37
\* C37: a progress write requested on a choice or on a chapter change carries
\* the chapter the session is in when it is requested, and the write of a
\* choice never lowers the currentChapter of an existing remote document.
C37_WritesStoreCurrentChapter ==
  /\ [][\A o \in choiceOps' \ choiceOps :
          o.pc = "read" => o.chapterIndex = ui.currentChapterIndex]_vars
  /\ [][\A o \in cfOps' \ cfOps :
          o.pc = "read" => o.chapter = ui.currentChapterIndex]_vars
  /\ [][\A o \in choiceOps :
          (ChoiceWrite(o) /\ doc.exists) => doc'.currentChapter >= doc.currentChapter]_vars

\* --------------------------------------------------- signing in, on its own
\* createUserDocument (userService.ts lines 252-286) is called by the auth
\* subscription of the root layout for every signed-in user it reports and by
\* signInWithGoogle after signInWithCredential, so one sign-in can have two
\* calls in progress.  Its getDoc and its setDoc are two remote steps.
Callers == {"authListener", "googleSignIn"}

\* createUserDocument(user) up to the return of getDoc(userRef)
CreateUserDocument(via) ==
  /\ cloud.n < MaxCalls
  /\ cloud' = [cloud EXCEPT !.n = @ + 1, !.fn = "createUserDocument",
                            !.caller = "reader", !.touched = {}, !.error = "",
                            !.signIns = @ \cup
                              {[id |-> cloud.n + 1, via |-> via, exists |-> cloud.userDoc]}]
  /\ UNCHANGED <<Local, story, doc, coins, Ops, fails>>

\* if (!userDoc.exists()) (line 262)
UserDocMissing(c) == ~c.exists

\* the rest of createUserDocument: setDoc(userRef, userData) with coins: 20
\* when the document was not found, nothing otherwise
UserDocSet(c) ==
  /\ c \in cloud.signIns
  /\ IF UserDocMissing(c)
     THEN /\ coins' = DefaultCoins
          /\ cloud' = [cloud EXCEPT !.signIns = @ \ {c}, !.userDoc = TRUE,
                                    !.touched = {"reader"}]
     ELSE /\ coins' = coins
          /\ cloud' = [cloud EXCEPT !.signIns = @ \ {c}]
  /\ UNCHANGED <<Local, story, doc, Ops, fails>>

\* a user who has never signed in: no users/{uid} document
InitSignIn ==
  /\ story = PaywallStory
  /\ cloud = [NoCalls EXCEPT !.userDoc = FALSE]
  /\ sess = [n |-> 0, mounted |-> FALSE, auth |-> FALSE, initChapter |-> 0,
             alert |-> NoAlert]
  /\ timers = {}
  /\ dialogs = {}
  /\ load = "none"
  /\ restore = NoRestore
  /\ profile = "none"
  /\ choiceOps = {}
  /\ nameOps = {}
  /\ cfOps = {}
  /\ unlocks = {}
  /\ doc = NoDoc
  /\ coins = 0
  /\ fails = 0
  /\ races = 0
  /\ ui = InitialUi
  /\ view = InitialUi

NextSignIn ==
  \/ \E via \in Callers : CreateUserDocument(via)
  \/ \E c \in cloud.signIns : UserDocSet(c)
  \/ \E operation \in {"add", "subtract"} : ClientUpdateUserCoins(CoinCost, operation)
  \/ \E c \in cloud.pending : CoinsUpdated(c)

SpecSignIn == InitSignIn /\ [][NextSignIn]_vars

\* =================================================================== C38
\* C38: createUserDocument never overwrites an existing user document: the
\* step that finishes a call sets the balance to the default 20 only if the
\* document does not exist at that moment, and leaves the balance as it is
\* otherwise, also when two calls for the same user overlap.
C38_CreateNeverOverwrites ==
  [][\A c \in cloud.signIns :
       UserDocSet(c) =>
         IF cloud.userDoc THEN coins' = coins ELSE coins' = DefaultCoins]_vars

====
